---------------------------- MODULE Spec2Model ----------------------------
(***************************************************************************)
(* Model of the Sensirion SHT3x driver (src/sht3x/sht3x.c, sht3x.h).       *)
(*                                                                         *)
(* Every driver function is an operator that returns what the call did:    *)
(* its return code, the output parameters it wrote, and the sequence of    *)
(* transport calls it issued.  What the transport answers (status codes,   *)
(* delivered words, the contents of a buffer the transport left unwritten) *)
(* is the environment's choice and is a parameter of the operator.         *)
(*                                                                         *)
(* Arithmetic keeps the widths of the C code, for a build with a 32-bit    *)
(* int: uint32_t values are held as two 16-bit limbs <<hi, lo>> so that    *)
(* wrap-around modulo 2^32 is computed, not assumed away.                  *)
(*                                                                         *)
(* A definition introduced as "variant:" is a faulty                       *)
(* version of the definition that follows it: a slip the code could have   *)
(* made.  Each property at the end rejects one of them.                    *)
(***************************************************************************)
EXTENDS Integers, Sequences, FiniteSets

(***************************************************************************)
(* Status codes and timing, sht3x.h                                        *)
(***************************************************************************)
STATUS_OK == 0
STATUS_ERR_BAD_DATA == -1
STATUS_CRC_FAIL == -2
STATUS_UNKNOWN_DEVICE == -3
STATUS_ERR_INVALID_PARAMS == -4
SHT3X_MEASUREMENT_DURATION_USEC == 15000

\* sht3x_i2c_addr_t
SHT3X_I2C_ADDR_DFLT == 68
SHT3X_I2C_ADDR_ALT == 69

\* sht3x_measurement_mode_t
SHT3X_MEAS_MODE_LPM == 0
SHT3X_MEAS_MODE_MPM == 1
SHT3X_MEAS_MODE_HPM == 2

\* sht3x_alert_thd_t
SHT3X_HIALRT_SET == 0
SHT3X_HIALRT_CLR == 1
SHT3X_LOALRT_CLR == 2
SHT3X_LOALRT_SET == 3

(***************************************************************************)
(* Command words, sht3x.c (build without clock stretching)                 *)
(***************************************************************************)
\* 0x2400, 0x240B, 0x2416
SHT3X_CMD_MEASURE_HPM == 9216
SHT3X_CMD_MEASURE_MPM == 9227
SHT3X_CMD_MEASURE_LPM == 9238
\* 0xFE00, 0x01FF
SHT3X_HUMIDITY_LIMIT_MSK == 65024
SHT3X_TEMPERATURE_LIMIT_MSK == 511
\* 0xF32D, 0x3041, 0x3780
SHT3X_CMD_READ_STATUS_REG == 62253
SHT3X_CMD_CLR_STATUS_REG == 12353
SHT3X_CMD_READ_SERIAL_ID == 14208
SHT3X_CMD_DURATION_USEC == 1000
\* 0xE11F, 0xE114, 0xE109, 0xE102
SHT3X_CMD_READ_HIALRT_LIM_SET == 57631
SHT3X_CMD_READ_HIALRT_LIM_CLR == 57620
SHT3X_CMD_READ_LOALRT_LIM_CLR == 57609
SHT3X_CMD_READ_LOALRT_LIM_SET == 57602
\* 0x611D, 0x6116, 0x610B, 0x6100
SHT3X_CMD_WRITE_HIALRT_LIM_SET == 24861
SHT3X_CMD_WRITE_HIALRT_LIM_CLR == 24854
SHT3X_CMD_WRITE_LOALRT_LIM_CLR == 24843
SHT3X_CMD_WRITE_LOALRT_LIM_SET == 24832

(***************************************************************************)
(* Fixed-width arithmetic                                                  *)
(***************************************************************************)
\* 2^16: one limb of a uint32_t, and the number of uint16_t values
B16 == 65536

Word16 == 0 .. (B16 - 1)

RECURSIVE BitAnd(_, _)
\* a & b on non-negative integers
BitAnd(a, b) ==
    IF a = 0 \/ b = 0 THEN 0
    ELSE (a % 2) * (b % 2) + 2 * BitAnd(a \div 2, b \div 2)

RECURSIVE BitOr(_, _)
\* a | b on non-negative integers
BitOr(a, b) ==
    IF a = 0 THEN b
    ELSE IF b = 0 THEN a
    ELSE (IF a % 2 = 1 \/ b % 2 = 1 THEN 1 ELSE 0) + 2 * BitOr(a \div 2, b \div 2)

\* (uint32_t)x for an int x, as limbs <<hi, lo>>
U32(x) == << (x \div B16) % B16, x % B16 >>

\* a - b modulo 2^32 on limbs
U32Sub(a, b) ==
    LET borrow == IF a[2] < b[2] THEN 1 ELSE 0
    IN  << (a[1] - b[1] - borrow) % B16, (a[2] - b[2]) % B16 >>

\* a + b modulo 2^32 on limbs
U32Add(a, b) ==
    LET lo == a[2] + b[2]
    IN  << (a[1] + b[1] + lo \div B16) % B16, lo % B16 >>

\* a << 16 modulo 2^32 on limbs
U32Shl16(a) == << a[2], 0 >>

\* a / d on limbs, for a divisor 0 < d < 2^15 (schoolbook long division)
U32Div(a, d) ==
    LET r == a[1] % d
    IN  << a[1] \div d, (r * B16 + a[2]) \div d >>

\* a >> 7 on limbs
U32Shr7(a) == << a[1] \div 128, ((a[1] % 128) * B16 + a[2]) \div 128 >>

\* (uint16_t)a on limbs
U32ToU16(a) == a[2]

\* a * b modulo 2^32 for 0 <= a, b < 2^16, as limbs
U32Mul(a, b) ==
    LET p1 == (a \div 256) * b
        p0 == (a % 256) * b
    IN  U32Add(<< (p1 \div 256) % B16, (p1 % 256) * 256 >>, U32(p0))

\* the int32_t whose two's-complement bit pattern the limbs are
I32(a) == IF a[1] >= 32768 THEN (a[1] - B16) * B16 + a[2] ELSE a[1] * B16 + a[2]

\* a * b in int32_t arithmetic, wrapping on overflow
I32Mul(a, b) == I32(U32Mul(a, b))

(***************************************************************************)
(* Conversions of sht3x_read                                               *)
(***************************************************************************)
\* variant: sht3x.c:103 with a multiplier whose product leaves int32_t
sht3x_temperature_wide(word) == (I32Mul(43750, word) \div 16384) - 45000

\* sht3x.c:103  ((21875 * (int32_t)words[0]) >> 13) - 45000
sht3x_temperature(word) == (I32Mul(21875, word) \div 8192) - 45000

\* sht3x.c:104  (12500 * (int32_t)words[1]) >> 13
sht3x_humidity(word) == I32Mul(12500, word) \div 8192

(***************************************************************************)
(* Alert limit word, sht3x_set_alert_thd / sht3x_get_alert_thd             *)
(***************************************************************************)
\* the values a build can produce for the int expression (humidity << 16):
\* exact while it fits an int; signed overflow from 2^15 on, where the
\* usual wrap, a saturated and a zeroed result are all allowed
HumidityShl16(humidity) ==
    IF humidity < 32768 THEN { U32(humidity * B16) }
    ELSE { << humidity, 0 >>, << 32767, B16 - 1 >>, << 0, 0 >> }

\* variant: the humidity field scaled by 2^16 instead of 2^16 - 1: "- humidity" left out
sht3x_humidity_limit_unadjusted(humidity, shl) ==
    BitAnd(U32ToU16(U32Div(shl, 1000)), SHT3X_HUMIDITY_LIMIT_MSK)

\* sht3x.c:183-185  humidity field of the limit word, shl = humidity << 16
sht3x_humidity_limit(humidity, shl) ==
    LET tmp1 == U32Sub(shl, U32(humidity))
        tmp2 == U32Div(tmp1, 1000)
    IN  BitAnd(U32ToU16(tmp2), SHT3X_HUMIDITY_LIMIT_MSK)

\* sht3x.c:187-191  temperature field of the limit word
sht3x_temperature_limit(temperature) ==
    LET tmp1 == U32(temperature + 450)
        tmp2 == U32Sub(U32Shl16(tmp1), tmp1)
        tmp3 == U32Div(tmp2, 1750)
        tmp4 == U32Shr7(tmp3)
    IN  BitAnd(U32ToU16(tmp4), SHT3X_TEMPERATURE_LIMIT_MSK)

\* sht3x.c:180-191  limitVal
sht3x_limit_word(humidity, temperature, shl) ==
    BitOr(sht3x_humidity_limit(humidity, shl), sht3x_temperature_limit(temperature))

\* variant: the decoded humidity rounded to the nearest tenth instead of truncated
sht3x_limit_humidity_rounded(word) ==
    ((1000 * BitAnd(word, SHT3X_HUMIDITY_LIMIT_MSK) + 32767) \div 65535) % B16

\* sht3x.c:255-257  *humidity
sht3x_limit_humidity(word) ==
    ((1000 * BitAnd(word, SHT3X_HUMIDITY_LIMIT_MSK)) \div 65535) % B16

\* sht3x.c:259-263  *temperature
sht3x_limit_temperature(word) ==
    ((BitAnd(word, SHT3X_TEMPERATURE_LIMIT_MSK) * 128 * 1750) \div 65535) - 450

(***************************************************************************)
(* Status word macros, sht3x.h                                             *)
(***************************************************************************)
\* sht3x.h:60, mask 0x8000
SHT3X_IS_ALRT_PENDING(status) == BitAnd(status, 32768) # 0
\* variant: the humidity tracking flag with a digit of the mask lost: 0x0080
SHT3X_IS_ALRT_RH_TRACK_0080(status) == BitAnd(status, 128) # 0
\* sht3x.h:61, mask 0x0800
SHT3X_IS_ALRT_RH_TRACK(status) == BitAnd(status, 2048) # 0
\* sht3x.h:62, mask 0x0400
SHT3X_IS_ALRT_T_TRACK(status) == BitAnd(status, 1024) # 0
\* sht3x.h:63, mask 0x0010
SHT3X_IS_SYSTEM_RST_DETECT(status) == BitAnd(status, 16) # 0
\* sht3x.h:64, mask 0x0001
SHT3X_IS_LAST_CRC_FAIL(status) == BitAnd(status, 1) # 0

(***************************************************************************)
(* Transport calls the driver issues, as the events of a call's bus trace  *)
(***************************************************************************)
sensirion_i2c_write_cmd(addr, cmd) ==
    [fn |-> "write_cmd", addr |-> addr, cmd |-> cmd]

sensirion_i2c_write_cmd_with_args(addr, cmd, args) ==
    [fn |-> "write_cmd_with_args", addr |-> addr, cmd |-> cmd, args |-> args]

sensirion_i2c_read_words(addr, num_words) ==
    [fn |-> "read_words", addr |-> addr, num_words |-> num_words]

sensirion_i2c_read_words_as_bytes(addr, num_words) ==
    [fn |-> "read_words_as_bytes", addr |-> addr, num_words |-> num_words]

sensirion_i2c_read_cmd(addr, cmd, num_words) ==
    [fn |-> "read_cmd", addr |-> addr, cmd |-> cmd, num_words |-> num_words]

sensirion_i2c_delayed_read_cmd(addr, cmd, delay_us, num_words) ==
    [fn |-> "delayed_read_cmd", addr |-> addr, cmd |-> cmd,
     delay_us |-> delay_us, num_words |-> num_words]

sensirion_sleep_usec(useconds) == [fn |-> "sleep_usec", useconds |-> useconds]

\* the helper of the transport library: big-endian assembly, as uint32_t limbs
sensirion_bytes_to_uint32_t(bytes) ==
    << bytes[1] * 256 + bytes[2], bytes[3] * 256 + bytes[4] >>

\* SENSIRION_NUM_WORDS(x): sizeof(x) / 2
SENSIRION_NUM_WORDS(size_bytes) == size_bytes \div 2

\* no output parameter written
NoOut == << >>

VARIABLES
    sht3x_cmd_measure,  \* the file-static command selector, sht3x.c:75
    lastModeCall,       \* history: the most recent mode-setting call
    pending,            \* history: addresses with a measurement started, not read
    call,               \* the most recent driver call: arguments, answers, result
    stim                \* the input a conversion run was started with

vars == << sht3x_cmd_measure, lastModeCall, pending, call, stim >>

(***************************************************************************)
(* The driver functions.  Each result is [ret, out, bus]: the return code  *)
(* (absent for a void function), the output parameters written, and the    *)
(* transport calls issued, in order.  Parameters after the C parameters    *)
(* are the transport's answers.                                            *)
(***************************************************************************)
\* variant: a measure that sends the high-precision command whatever the selector is
sht3x_measure_fixed(addr, st) ==
    [ret |-> st, out |-> NoOut,
     bus |-> << sensirion_i2c_write_cmd(addr, SHT3X_CMD_MEASURE_HPM) >>]

\* sht3x.c:89-91
sht3x_measure(addr, st) ==
    [ret |-> st, out |-> NoOut,
     bus |-> << sensirion_i2c_write_cmd(addr, sht3x_cmd_measure) >>]

\* variant: a read that leaves the outputs alone when the transport fails
sht3x_read_guarded(addr, st, words) ==
    [ret |-> st,
     out |-> IF st = STATUS_OK
             THEN [temperature |-> sht3x_temperature(words[1]),
                   humidity |-> sht3x_humidity(words[2])]
             ELSE NoOut,
     bus |-> << sensirion_i2c_read_words(addr, SENSIRION_NUM_WORDS(4)) >>]

\* variant: a read that takes the humidity word first
sht3x_read_swapped(addr, st, words) ==
    [ret |-> st,
     out |-> [temperature |-> sht3x_temperature(words[2]),
              humidity |-> sht3x_humidity(words[1])],
     bus |-> << sensirion_i2c_read_words(addr, SENSIRION_NUM_WORDS(4)) >>]

\* sht3x.c:93-107; words is the content of words[] after the transport call
sht3x_read(addr, st, words) ==
    [ret |-> st,
     out |-> [temperature |-> sht3x_temperature(words[1]),
              humidity |-> sht3x_humidity(words[2])],
     bus |-> << sensirion_i2c_read_words(addr, SENSIRION_NUM_WORDS(4)) >>]

\* variant: a blocking read that goes on to sleep and read after a failed write
sht3x_measure_blocking_read_unchecked(addr, st_write, st_read, words) ==
    LET m == sht3x_measure(addr, st_write)
        r == sht3x_read(addr, st_read, words)
    IN  [ret |-> r.ret, out |-> r.out,
         bus |-> m.bus
                 \o << sensirion_sleep_usec(SHT3X_MEASUREMENT_DURATION_USEC) >>
                 \o r.bus]

\* sht3x.c:77-87
sht3x_measure_blocking_read(addr, st_write, st_read, words) ==
    LET m == sht3x_measure(addr, st_write)
        r == sht3x_read(addr, st_read, words)
    IN  IF m.ret = STATUS_OK
        THEN [ret |-> r.ret, out |-> r.out,
              bus |-> m.bus
                      \o << sensirion_sleep_usec(SHT3X_MEASUREMENT_DURATION_USEC) >>
                      \o r.bus]
        ELSE [ret |-> m.ret, out |-> NoOut, bus |-> m.bus]

\* sht3x.c:109-113; the status word goes to a local and is dropped
sht3x_probe(addr, st) ==
    [ret |-> st, out |-> NoOut,
     bus |-> << sensirion_i2c_delayed_read_cmd(
                    addr, SHT3X_CMD_READ_STATUS_REG, SHT3X_CMD_DURATION_USEC, 1) >>]

\* sht3x.c:115-118; data is what the transport stored through status, if anything
sht3x_get_status(addr, st, data) ==
    [ret |-> st,
     out |-> IF data = << >> THEN NoOut ELSE [status |-> data[1]],
     bus |-> << sensirion_i2c_delayed_read_cmd(
                    addr, SHT3X_CMD_READ_STATUS_REG, SHT3X_CMD_DURATION_USEC, 1) >>]

\* sht3x.c:120-122
sht3x_clear_status(addr, st) ==
    [ret |-> st, out |-> NoOut,
     bus |-> << sensirion_i2c_write_cmd(addr, SHT3X_CMD_CLR_STATUS_REG) >>]

\* sht3x.c:124-127; the new value of sht3x_cmd_measure
sht3x_enable_low_power_mode(enable_low_power_mode) ==
    IF enable_low_power_mode # 0 THEN SHT3X_CMD_MEASURE_LPM ELSE SHT3X_CMD_MEASURE_HPM

\* sht3x.c:129-150; the new value of sht3x_cmd_measure
sht3x_set_power_mode(mode) ==
    CASE mode = SHT3X_MEAS_MODE_LPM -> SHT3X_CMD_MEASURE_LPM
      [] mode = SHT3X_MEAS_MODE_MPM -> SHT3X_CMD_MEASURE_MPM
      [] mode = SHT3X_MEAS_MODE_HPM -> SHT3X_CMD_MEASURE_HPM
      [] OTHER -> SHT3X_CMD_MEASURE_HPM

\* variant: a serial read that reads whether or not the command was written
sht3x_read_serial_unchecked(addr, st_write, st_read, serial_bytes) ==
    [ret |-> st_read,
     out |-> [serial |-> sensirion_bytes_to_uint32_t(serial_bytes)],
     bus |-> << sensirion_i2c_write_cmd(addr, SHT3X_CMD_READ_SERIAL_ID),
                sensirion_sleep_usec(SHT3X_CMD_DURATION_USEC),
                sensirion_i2c_read_words_as_bytes(addr, SENSIRION_NUM_WORDS(4)) >>]

\* sht3x.c:152-166; the sleep follows the write also when the write failed
sht3x_read_serial(addr, st_write, st_read, serial_bytes) ==
    IF st_write = STATUS_OK
    THEN [ret |-> st_read,
          out |-> [serial |-> sensirion_bytes_to_uint32_t(serial_bytes)],
          bus |-> << sensirion_i2c_write_cmd(addr, SHT3X_CMD_READ_SERIAL_ID),
                     sensirion_sleep_usec(SHT3X_CMD_DURATION_USEC),
                     sensirion_i2c_read_words_as_bytes(addr, SENSIRION_NUM_WORDS(4)) >>]
    ELSE [ret |-> st_write, out |-> NoOut,
          bus |-> << sensirion_i2c_write_cmd(addr, SHT3X_CMD_READ_SERIAL_ID),
                     sensirion_sleep_usec(SHT3X_CMD_DURATION_USEC) >>]

\* sht3x.c:168-170
sht3x_get_driver_version(addr) ==
    [ret |-> "SHT_DRV_VERSION_STR", out |-> NoOut, bus |-> << >>]

\* sht3x.c:172-174
sht3x_get_configured_address(addr) == [ret |-> addr, out |-> NoOut, bus |-> << >>]

\* variant: a threshold write whose default case falls into the low-set command
sht3x_set_alert_thd_nodefault(addr, thd, humidity, temperature, shl, st) ==
    LET limitVal == sht3x_limit_word(humidity, temperature, shl)
        cmd == CASE thd = SHT3X_HIALRT_SET -> SHT3X_CMD_WRITE_HIALRT_LIM_SET
                 [] thd = SHT3X_HIALRT_CLR -> SHT3X_CMD_WRITE_HIALRT_LIM_CLR
                 [] thd = SHT3X_LOALRT_CLR -> SHT3X_CMD_WRITE_LOALRT_LIM_CLR
                 [] OTHER -> SHT3X_CMD_WRITE_LOALRT_LIM_SET
    IN  [ret |-> st, out |-> NoOut,
         bus |-> << sensirion_i2c_write_cmd_with_args(addr, cmd, << limitVal >>) >>]

\* sht3x.c:176-219; shl is the value the build gave (humidity << 16)
sht3x_set_alert_thd(addr, thd, humidity, temperature, shl, st) ==
    LET limitVal == sht3x_limit_word(humidity, temperature, shl)
        write(cmd) ==
            [ret |-> st, out |-> NoOut,
             bus |-> << sensirion_i2c_write_cmd_with_args(addr, cmd, << limitVal >>) >>]
    IN  CASE thd = SHT3X_HIALRT_SET -> write(SHT3X_CMD_WRITE_HIALRT_LIM_SET)
          [] thd = SHT3X_HIALRT_CLR -> write(SHT3X_CMD_WRITE_HIALRT_LIM_CLR)
          [] thd = SHT3X_LOALRT_CLR -> write(SHT3X_CMD_WRITE_LOALRT_LIM_CLR)
          [] thd = SHT3X_LOALRT_SET -> write(SHT3X_CMD_WRITE_LOALRT_LIM_SET)
          [] OTHER -> [ret |-> STATUS_ERR_INVALID_PARAMS, out |-> NoOut, bus |-> << >>]

\* sht3x.c:221-266; word is the content of word after the switch: what the
\* transport stored, or whatever the uninitialised local held
sht3x_get_alert_thd(addr, thd, st, word) ==
    LET out == [humidity |-> sht3x_limit_humidity(word),
                temperature |-> sht3x_limit_temperature(word)]
        read(cmd) ==
            [ret |-> st, out |-> out,
             bus |-> << sensirion_i2c_read_cmd(addr, cmd, 1) >>]
    IN  CASE thd = SHT3X_HIALRT_SET -> read(SHT3X_CMD_READ_HIALRT_LIM_SET)
          [] thd = SHT3X_HIALRT_CLR -> read(SHT3X_CMD_READ_HIALRT_LIM_CLR)
          [] thd = SHT3X_LOALRT_CLR -> read(SHT3X_CMD_READ_LOALRT_LIM_CLR)
          [] thd = SHT3X_LOALRT_SET -> read(SHT3X_CMD_READ_LOALRT_LIM_SET)
          [] OTHER -> [ret |-> STATUS_ERR_INVALID_PARAMS, out |-> out, bus |-> << >>]

(***************************************************************************)
(* Inputs and transport answers the calls are driven with                  *)
(***************************************************************************)
\* sht3x_set_power_mode is called with 0 .. MaxMode (values past HPM are
\* not enumerators), sht3x_enable_low_power_mode with 0 .. MaxEnable,
\* the threshold functions with slot 0 .. MaxThd (values past LOALRT_SET
\* are not enumerators)
MaxMode == 3
MaxEnable == 2
MaxThd == 4

Addrs == { SHT3X_I2C_ADDR_DFLT, SHT3X_I2C_ADDR_ALT }
Modes == 0 .. MaxMode
Enables == 0 .. MaxEnable
Thds == 0 .. MaxThd
ValidThds == { SHT3X_HIALRT_SET, SHT3X_HIALRT_CLR, SHT3X_LOALRT_CLR, SHT3X_LOALRT_SET }

\* status codes a transport call answers with
TransportStatus == { STATUS_OK, STATUS_ERR_BAD_DATA, STATUS_CRC_FAIL }

\* contents of words[2] after a read: (0x6666, 0x999A), the extremes, a mix
SampleWordPairs == { << 26214, 39322 >>, << 0, 0 >>, << 65535, 65535 >>, << 39322, 0 >> }
\* status and limit words: 0x8011, 0, 0xFFFF
SampleWords == { 32785, 0, 65535 }
\* contents of serial_bytes[4] after a read
SampleBytes == { << 0, 0, 0, 0 >>, << 18, 52, 86, 120 >>, << 255, 255, 255, 255 >> }
\* threshold arguments: in range, and past the ranges the encoding is made for
SampleHumidity == { 0, 1000, 32768, 65535 }
SampleTemperature == { -32768, -450, 1300, 32767 }

NoCall == [op |-> "none"]
NoStim == [kind |-> "none"]

Init ==
    /\ sht3x_cmd_measure = SHT3X_CMD_MEASURE_HPM
    /\ lastModeCall = [fn |-> "none"]
    /\ pending = {}
    /\ call = NoCall
    /\ stim = NoStim

(***************************************************************************)
(* One action per driver function.  The parameters are the caller's        *)
(* arguments and the transport's answers.                                  *)
(***************************************************************************)
Measure(addr, st) ==
    /\ call' = [op |-> "measure", in |-> [addr |-> addr],
                env |-> [st |-> st], res |-> sht3x_measure(addr, st)]
    /\ pending' = IF st = STATUS_OK THEN pending \cup {addr} ELSE pending
    /\ UNCHANGED << sht3x_cmd_measure, lastModeCall >>

Read(addr, st, words) ==
    /\ call' = [op |-> "read", in |-> [addr |-> addr],
                env |-> [st |-> st, words |-> words, pending |-> addr \in pending],
                res |-> sht3x_read(addr, st, words)]
    /\ pending' = IF st = STATUS_OK THEN pending \ {addr} ELSE pending
    /\ UNCHANGED << sht3x_cmd_measure, lastModeCall >>

MeasureBlockingRead(addr, st_write, st_read, words) ==
    /\ call' = [op |-> "measure_blocking_read", in |-> [addr |-> addr],
                env |-> [st_write |-> st_write, st_read |-> st_read, words |-> words],
                res |-> sht3x_measure_blocking_read(addr, st_write, st_read, words)]
    /\ pending' = IF st_write # STATUS_OK THEN pending
                  ELSE IF st_read = STATUS_OK THEN pending \ {addr}
                  ELSE pending \cup {addr}
    /\ UNCHANGED << sht3x_cmd_measure, lastModeCall >>

Probe(addr, st) ==
    /\ call' = [op |-> "probe", in |-> [addr |-> addr],
                env |-> [st |-> st], res |-> sht3x_probe(addr, st)]
    /\ UNCHANGED << sht3x_cmd_measure, lastModeCall, pending >>

GetStatus(addr, st, data) ==
    /\ call' = [op |-> "get_status", in |-> [addr |-> addr],
                env |-> [st |-> st, data |-> data],
                res |-> sht3x_get_status(addr, st, data)]
    /\ UNCHANGED << sht3x_cmd_measure, lastModeCall, pending >>

ClearStatus(addr, st) ==
    /\ call' = [op |-> "clear_status", in |-> [addr |-> addr],
                env |-> [st |-> st], res |-> sht3x_clear_status(addr, st)]
    /\ UNCHANGED << sht3x_cmd_measure, lastModeCall, pending >>

EnableLowPowerMode(enable) ==
    /\ sht3x_cmd_measure' = sht3x_enable_low_power_mode(enable)
    /\ lastModeCall' = [fn |-> "enable_low_power_mode", arg |-> enable]
    /\ call' = [op |-> "enable_low_power_mode", in |-> [enable_low_power_mode |-> enable]]
    /\ UNCHANGED pending

SetPowerMode(mode) ==
    /\ sht3x_cmd_measure' = sht3x_set_power_mode(mode)
    /\ lastModeCall' = [fn |-> "set_power_mode", arg |-> mode]
    /\ call' = [op |-> "set_power_mode", in |-> [mode |-> mode]]
    /\ UNCHANGED pending

ReadSerial(addr, st_write, st_read, serial_bytes) ==
    /\ call' = [op |-> "read_serial", in |-> [addr |-> addr],
                env |-> [st_write |-> st_write, st_read |-> st_read,
                         serial_bytes |-> serial_bytes],
                res |-> sht3x_read_serial(addr, st_write, st_read, serial_bytes)]
    /\ UNCHANGED << sht3x_cmd_measure, lastModeCall, pending >>

GetDriverVersion(addr) ==
    /\ call' = [op |-> "get_driver_version", in |-> [addr |-> addr],
                res |-> sht3x_get_driver_version(addr)]
    /\ UNCHANGED << sht3x_cmd_measure, lastModeCall, pending >>

GetConfiguredAddress(addr) ==
    /\ call' = [op |-> "get_configured_address", in |-> [addr |-> addr],
                res |-> sht3x_get_configured_address(addr)]
    /\ UNCHANGED << sht3x_cmd_measure, lastModeCall, pending >>

SetAlertThd(addr, thd, humidity, temperature, shl, st) ==
    /\ call' = [op |-> "set_alert_thd",
                in |-> [addr |-> addr, thd |-> thd, humidity |-> humidity,
                        temperature |-> temperature],
                env |-> [st |-> st, shl |-> shl],
                res |-> sht3x_set_alert_thd(addr, thd, humidity, temperature, shl, st)]
    /\ UNCHANGED << sht3x_cmd_measure, lastModeCall, pending >>

GetAlertThd(addr, thd, st, word) ==
    /\ call' = [op |-> "get_alert_thd", in |-> [addr |-> addr, thd |-> thd],
                env |-> [st |-> st, word |-> word],
                res |-> sht3x_get_alert_thd(addr, thd, st, word)]
    /\ UNCHANGED << sht3x_cmd_measure, lastModeCall, pending >>

(***************************************************************************)
(* Spec: any sequence of driver calls, with any transport answers          *)
(***************************************************************************)
DoMeasure ==
    /\ call = NoCall
    /\ UNCHANGED stim
    /\ \E addr \in Addrs, st \in TransportStatus : Measure(addr, st)

DoRead ==
    /\ call = NoCall
    /\ UNCHANGED stim
    /\ \E addr \in Addrs, st \in TransportStatus, words \in SampleWordPairs :
           Read(addr, st, words)

DoMeasureBlockingRead ==
    /\ call = NoCall
    /\ UNCHANGED stim
    /\ \E addr \in Addrs, st_write \in TransportStatus :
           IF st_write = STATUS_OK
           THEN \E st_read \in TransportStatus, words \in SampleWordPairs :
                    MeasureBlockingRead(addr, st_write, st_read, words)
           ELSE MeasureBlockingRead(addr, st_write, STATUS_OK, << 0, 0 >>)

DoProbe ==
    /\ call = NoCall
    /\ UNCHANGED stim
    /\ \E addr \in Addrs, st \in TransportStatus : Probe(addr, st)

DoGetStatus ==
    /\ call = NoCall
    /\ UNCHANGED stim
    /\ \E addr \in Addrs, st \in TransportStatus :
           \E data \in { << w >> : w \in SampleWords }
                       \cup (IF st = STATUS_OK THEN {} ELSE { << >> }) :
               GetStatus(addr, st, data)

DoClearStatus ==
    /\ call = NoCall
    /\ UNCHANGED stim
    /\ \E addr \in Addrs, st \in TransportStatus : ClearStatus(addr, st)

DoEnableLowPowerMode ==
    /\ call = NoCall
    /\ UNCHANGED stim
    /\ \E enable \in Enables : EnableLowPowerMode(enable)

DoSetPowerMode ==
    /\ call = NoCall
    /\ UNCHANGED stim
    /\ \E mode \in Modes : SetPowerMode(mode)

DoReadSerial ==
    /\ call = NoCall
    /\ UNCHANGED stim
    /\ \E addr \in Addrs, st_write \in TransportStatus :
           IF st_write = STATUS_OK
           THEN \E st_read \in TransportStatus, serial_bytes \in SampleBytes :
                    ReadSerial(addr, st_write, st_read, serial_bytes)
           ELSE ReadSerial(addr, st_write, STATUS_OK, << 0, 0, 0, 0 >>)

DoGetDriverVersion ==
    /\ call = NoCall
    /\ UNCHANGED stim
    /\ \E addr \in Addrs : GetDriverVersion(addr)

DoGetConfiguredAddress ==
    /\ call = NoCall
    /\ UNCHANGED stim
    /\ \E addr \in Addrs : GetConfiguredAddress(addr)

DoSetAlertThd ==
    /\ call = NoCall
    /\ UNCHANGED stim
    /\ \E addr \in Addrs, thd \in Thds, humidity \in SampleHumidity,
          temperature \in SampleTemperature, st \in TransportStatus :
           \E shl \in HumidityShl16(humidity) :
               SetAlertThd(addr, thd, humidity, temperature, shl, st)

DoGetAlertThd ==
    /\ call = NoCall
    /\ UNCHANGED stim
    /\ \E addr \in Addrs, thd \in Thds, st \in TransportStatus, word \in SampleWords :
           GetAlertThd(addr, thd, st, word)

(***************************************************************************)
(* The caller decodes the status word get_status returned, with the        *)
(* macros of sht3x.h                                                       *)
(***************************************************************************)
CheckStatusFlags ==
    /\ call.op = "get_status"
    /\ call.res.ret = STATUS_OK
    /\ call' = [op |-> "status_flags",
                in |-> [status |-> call.res.out.status],
                res |-> [alrt_pending |-> SHT3X_IS_ALRT_PENDING(call.res.out.status),
                         alrt_rh_track |-> SHT3X_IS_ALRT_RH_TRACK(call.res.out.status),
                         alrt_t_track |-> SHT3X_IS_ALRT_T_TRACK(call.res.out.status),
                         system_rst_detect |->
                             SHT3X_IS_SYSTEM_RST_DETECT(call.res.out.status),
                         last_crc_fail |-> SHT3X_IS_LAST_CRC_FAIL(call.res.out.status)]]
    /\ UNCHANGED << sht3x_cmd_measure, lastModeCall, pending, stim >>

\* the call has returned and the caller is ready for its next call; the
\* driver is synchronous and single-threaded, one call at a time
Return ==
    /\ call # NoCall
    /\ call' = NoCall
    /\ UNCHANGED << sht3x_cmd_measure, lastModeCall, pending, stim >>

Next ==
    \/ DoMeasure
    \/ DoRead
    \/ DoMeasureBlockingRead
    \/ DoProbe
    \/ DoGetStatus
    \/ DoClearStatus
    \/ DoEnableLowPowerMode
    \/ DoSetPowerMode
    \/ DoReadSerial
    \/ DoGetDriverVersion
    \/ DoGetConfiguredAddress
    \/ DoSetAlertThd
    \/ DoGetAlertThd
    \/ CheckStatusFlags
    \/ Return

Spec == Init /\ [][Next]_vars

(***************************************************************************)
(* SpecConv: the conversions of sht3x_read and the status macros over      *)
(* every 16-bit word.  A run starts with one raw word; the transport       *)
(* delivers it (as words[0], with its complement as words[1], so that      *)
(* both conversions see every word) or as the status word.                 *)
(***************************************************************************)
InitConv ==
    /\ sht3x_cmd_measure = SHT3X_CMD_MEASURE_HPM
    /\ lastModeCall = [fn |-> "none"]
    /\ pending = {}
    /\ call = NoCall
    /\ \E w \in Word16 : stim = [kind |-> "raw", word |-> w]

ConvRead ==
    /\ call = NoCall
    /\ UNCHANGED stim
    /\ \E st \in { STATUS_OK, STATUS_CRC_FAIL } :
           Read(SHT3X_I2C_ADDR_DFLT, st, << stim.word, (B16 - 1) - stim.word >>)

ConvGetStatus ==
    /\ call = NoCall
    /\ UNCHANGED stim
    /\ GetStatus(SHT3X_I2C_ADDR_ALT, STATUS_OK, << stim.word >>)

NextConv ==
    \/ ConvRead
    \/ ConvGetStatus
    \/ CheckStatusFlags

SpecConv == InitConv /\ [][NextConv]_vars

(***************************************************************************)
(* SpecAlert: the alert limit word through the device.  The device keeps   *)
(* the limit word a successful write hands it and a later read of the      *)
(* same slot returns that word.  A run starts either with a pair of        *)
(* threshold arguments, which is written and read back, or with a limit    *)
(* word on the device, which is read, written back as decoded, and read    *)
(* again, over and over.                                                   *)
(***************************************************************************)
\* every humidity 0..1000 and every temperature -450..1300, each with the
\* other argument at both ends and inside its range
AlertGrid ==
    ((0 .. 1000) \X { -450, 0, 1750 - 450 })
        \cup ({ 0, 500, 1000 } \X ((-450) .. (1750 - 450)))

InitAlert ==
    /\ sht3x_cmd_measure = SHT3X_CMD_MEASURE_HPM
    /\ lastModeCall = [fn |-> "none"]
    /\ pending = {}
    /\ call = NoCall
    /\ \/ \E thd \in ValidThds, g \in AlertGrid :
              stim = [kind |-> "thd", thd |-> thd, humidity |-> g[1],
                      temperature |-> g[2]]
       \/ \E w \in Word16 :
              stim = [kind |-> "word", thd |-> SHT3X_LOALRT_SET, word |-> w]

\* the limit word a set_alert_thd call handed to the transport
WrittenLimit(c) == c.res.bus[1].args[1]

AlertSet ==
    /\ call = NoCall
    /\ stim.kind = "thd"
    /\ UNCHANGED stim
    /\ \E shl \in HumidityShl16(stim.humidity) :
           SetAlertThd(SHT3X_I2C_ADDR_DFLT, stim.thd, stim.humidity,
                       stim.temperature, shl, STATUS_OK)

AlertGetBack ==
    /\ stim.kind = "thd"
    /\ call.op = "set_alert_thd"
    /\ call.res.ret = STATUS_OK
    /\ UNCHANGED stim
    /\ GetAlertThd(call.in.addr, call.in.thd, STATUS_OK, WrittenLimit(call))

AlertGet ==
    /\ call = NoCall
    /\ stim.kind = "word"
    /\ UNCHANGED stim
    /\ GetAlertThd(SHT3X_I2C_ADDR_DFLT, stim.thd, STATUS_OK, stim.word)

AlertSetBack ==
    /\ stim.kind = "word"
    /\ call.op = "get_alert_thd"
    /\ call.res.ret = STATUS_OK
    /\ UNCHANGED stim
    /\ \E shl \in HumidityShl16(call.res.out.humidity) :
           SetAlertThd(call.in.addr, call.in.thd, call.res.out.humidity,
                       call.res.out.temperature, shl, STATUS_OK)

AlertGetAgain ==
    /\ stim.kind = "word"
    /\ call.op = "set_alert_thd"
    /\ call.res.ret = STATUS_OK
    /\ stim' = [stim EXCEPT !.word = WrittenLimit(call)]
    /\ GetAlertThd(call.in.addr, call.in.thd, STATUS_OK, WrittenLimit(call))

NextAlert ==
    \/ AlertSet
    \/ AlertGetBack
    \/ AlertGet
    \/ AlertSetBack
    \/ AlertGetAgain

SpecAlert == InitAlert /\ [][NextAlert]_vars

(***************************************************************************)
(* Properties                                                              *)
(***************************************************************************)
\* the transport calls of a bus trace that write to the bus
BusWrites(bus) ==
    { i \in 1 .. Len(bus) : bus[i].fn \in { "write_cmd", "write_cmd_with_args" } }

\* the transport calls of a bus trace that read from the bus
BusReads(bus) ==
    { i \in 1 .. Len(bus) :
        bus[i].fn \in { "read_words", "read_words_as_bytes", "read_cmd",
                        "delayed_read_cmd" } }

\* the transport calls of a bus trace that only wait
BusSleeps(bus) == { i \in 1 .. Len(bus) : bus[i].fn = "sleep_usec" }

C2_BlockingReadShortCircuits ==
    call.op = "measure_blocking_read" =>
        LET bus == call.res.bus
        IN  /\ Cardinality(BusWrites(bus)) = 1
            /\ bus[1].fn = "write_cmd"
            /\ bus[1].addr = call.in.addr
            /\ IF call.env.st_write # 0
               THEN /\ call.res.ret = call.env.st_write
                    /\ Len(bus) = 1
               ELSE /\ Len(bus) = 3
                    /\ bus[2] = [fn |-> "sleep_usec", useconds |-> 15000]
                    /\ bus[3] = [fn |-> "read_words", addr |-> call.in.addr,
                                 num_words |-> 2]
                    /\ call.res.ret = call.env.st_read

\* a blocking read whose write failed with the CRC code: that code comes
\* back and the write is all that reached the bus
C2_Witness ==
    /\ call.op = "measure_blocking_read"
    /\ call.env.st_write = -2
    /\ call.res.ret = -2
    /\ Len(call.res.bus) = 1
    /\ BusSleeps(call.res.bus) = {}
    /\ BusReads(call.res.bus) = {}

\* C3: setAlertThreshold and getAlertThreshold with a slot outside
\* {high-set, high-clear, low-clear, low-set} return invalid-parameters
\* (-4), and setAlertThreshold then writes nothing to the bus, for every
\* humidity and temperature argument; with a valid slot each performs
\* exactly one bus transaction with the slot's command word (write 0x611D,
\* 0x6116, 0x610B, 0x6100; read 0xE11F, 0xE114, 0xE109, 0xE102) and returns
\* the transport's status.
C3_AlertSlotChecked ==
    LET writeCmd == << 24861, 24854, 24843, 24832 >>
        readCmd == << 57631, 57620, 57609, 57602 >>
        bus == call.res.bus
    IN  /\ call.op = "set_alert_thd" =>
               IF call.in.thd \in 0 .. 3
               THEN /\ Len(bus) = 1
                    /\ bus[1].fn = "write_cmd_with_args"
                    /\ bus[1].addr = call.in.addr
                    /\ bus[1].cmd = writeCmd[call.in.thd + 1]
                    /\ call.res.ret = call.env.st
               ELSE /\ call.res.ret = -4
                    /\ BusWrites(bus) = {}
        /\ call.op = "get_alert_thd" =>
               IF call.in.thd \in 0 .. 3
               THEN /\ Len(bus) = 1
                    /\ bus[1].fn = "read_cmd"
                    /\ bus[1].addr = call.in.addr
                    /\ bus[1].cmd = readCmd[call.in.thd + 1]
                    /\ call.res.ret = call.env.st
               ELSE call.res.ret = -4

\* a threshold write to a slot past low-set, with the largest humidity and
\* the smallest temperature the parameters hold: -4 and an empty bus trace
C3_Witness ==
    /\ call.op = "set_alert_thd"
    /\ call.in.thd = 4
    /\ call.in.humidity = 65535
    /\ call.in.temperature = -32768
    /\ call.res.ret = -4
    /\ call.res.bus = << >>

\* C4: for every humidity h in 0..1000 and every temperature t in
\* -450..1300, what getAlertThreshold decodes from the limit word that
\* setAlertThreshold encoded from (h, t) is (h2, t2) with 0 <= h - h2 <= 8
\* and 0 <= t - t2 <= 4: never above the inputs, within the quantization
\* step of the 7-bit and 9-bit fields.
C4_AlertRoundTrip ==
    (stim.kind = "thd" /\ call.op = "get_alert_thd") =>
        /\ 0 <= stim.humidity - call.res.out.humidity
        /\ stim.humidity - call.res.out.humidity <= 8
        /\ 0 <= stim.temperature - call.res.out.temperature
        /\ stim.temperature - call.res.out.temperature <= 4

\* a round trip that is not exact and meets both error bounds
C4_Witness ==
    /\ stim.kind = "thd"
    /\ call.op = "get_alert_thd"
    /\ stim.humidity - call.res.out.humidity = 8
    /\ stim.temperature - call.res.out.temperature = 4

\* C5: for every raw word pair (rawT, rawH), read yields temperature =
\* floor(21875*rawT / 8192) - 45000 = floor(175000*rawT / 65536) - 45000
\* and humidity = floor(12500*rawH / 8192) = floor(100000*rawH / 65536),
\* the code's int32_t arithmetic not overflowing; temperature(0) = -45000,
\* temperature(65535) = 129997, humidity(0) = 0, humidity(65535) = 99998;
\* both are non-decreasing in the raw word; -45000 <= temperature <=
\* 129997 and 0 <= humidity <= 99998.
\* (175000*r / 65536 is written 2*r + 5491*r / 8192 and 100000*r / 65536
\* is written r + 2154*r / 4096, the same rationals, to stay in range.)
C5_ReadConversionExact ==
    call.op = "read" =>
        LET rawT == call.env.words[1]
            rawH == call.env.words[2]
            T == call.res.out.temperature
            H == call.res.out.humidity
        IN  /\ rawT <= 2147483647 \div 21875
            /\ rawH <= 2147483647 \div 12500
            /\ T = ((21875 * rawT) \div 8192) - 45000
            /\ T = (2 * rawT + (5491 * rawT) \div 8192) - 45000
            /\ H = (12500 * rawH) \div 8192
            /\ H = rawH + (2154 * rawH) \div 4096
            /\ rawT = 0 => T = -45000
            /\ rawT = 65535 => T = 129997
            /\ rawH = 0 => H = 0
            /\ rawH = 65535 => H = 99998
            /\ rawT < 65535 => T <= sht3x_temperature(rawT + 1)
            /\ rawH < 65535 => H <= sht3x_humidity(rawH + 1)
            /\ -45000 <= T /\ T <= 129997
            /\ 0 <= H /\ H <= 99998

\* the read of the largest temperature word and the smallest humidity word
C5_Witness ==
    /\ call.op = "read"
    /\ call.env.words = << 65535, 0 >>
    /\ call.res.out.temperature = 129997
    /\ call.res.out.humidity = 0

\* C6 as stated: read with rawT = 0x6666 and rawH = 0x999A delivered by a
\* successful bus read yields a temperature in 21950..22050 and a humidity
\* in 59950..60050.
C6_ScenarioAsStated ==
    (call.op = "read" /\ call.env.st = 0 /\ call.env.words = << 26214, 39322 >>) =>
        /\ 21950 <= call.res.out.temperature
        /\ call.res.out.temperature <= 22050
        /\ 59950 <= call.res.out.humidity
        /\ call.res.out.humidity <= 60050

\* C6 amended: read with rawT = 0x6666 and rawH = 0x999A delivered by a
\* successful bus read yields a temperature in 24950..25050 (25000 +/- 50
\* milli-degC) and a humidity in 59950..60050 (60000 +/- 50 milli-%RH).
C6_ScenarioAmended ==
    (call.op = "read" /\ call.env.st = 0 /\ call.env.words = << 26214, 39322 >>) =>
        /\ 24950 <= call.res.out.temperature
        /\ call.res.out.temperature <= 25050
        /\ 59950 <= call.res.out.humidity
        /\ call.res.out.humidity <= 60050

\* the scenario's read: 24998 milli-degC and 60000 milli-%RH
C6_Witness ==
    /\ call.op = "read"
    /\ call.env.st = 0
    /\ call.env.words = << 26214, 39322 >>
    /\ call.res.out.temperature = 24998
    /\ call.res.out.humidity = 60000

\* C7: readSerial(addr): if the serial-ID command write (0x3780) fails, the
\* byte read is never issued and the write's failure code is returned
\* unchanged; if the write succeeds, exactly one read of 4 bytes is issued
\* after the write and the 1000 microsecond delay, and the read's status is
\* returned.  The write and the read are each issued at most once.
C7_ReadSerialShortCircuits ==
    call.op = "read_serial" =>
        LET bus == call.res.bus
        IN  /\ Cardinality(BusWrites(bus)) = 1
            /\ bus[1] = [fn |-> "write_cmd", addr |-> call.in.addr, cmd |-> 14208]
            /\ IF call.env.st_write # 0
               THEN /\ call.res.ret = call.env.st_write
                    /\ BusReads(bus) = {}
               ELSE /\ Len(bus) = 3
                    /\ bus[2] = [fn |-> "sleep_usec", useconds |-> 1000]
                    /\ bus[3].fn = "read_words_as_bytes"
                    /\ bus[3].addr = call.in.addr
                    /\ 2 * bus[3].num_words = 4
                    /\ call.res.ret = call.env.st_read

\* a serial read whose command write failed: the failure code comes back,
\* nothing is read and no serial number is stored
C7_Witness ==
    /\ call.op = "read_serial"
    /\ call.env.st_write = -1
    /\ call.res.ret = -1
    /\ BusReads(call.res.bus) = {}
    /\ call.res.out = NoOut

\* C8: read(addr) issues exactly one two-word bus read and no bus write,
\* returns the transport's status code verbatim, and writes both output
\* parameters on every call whatever that status: the fixed-point
\* conversions of what the word buffer holds, temperature from word 0 and
\* humidity from word 1.
C8_ReadAlwaysWritesOutputs ==
    call.op = "read" =>
        /\ call.res.bus =
               << [fn |-> "read_words", addr |-> call.in.addr, num_words |-> 2] >>
        /\ call.res.ret = call.env.st
        /\ DOMAIN call.res.out = { "temperature", "humidity" }
        /\ call.res.out.temperature = ((21875 * call.env.words[1]) \div 8192) - 45000
        /\ call.res.out.humidity = (12500 * call.env.words[2]) \div 8192

\* a read with no measurement started on its address, answered with the
\* bad-data code: the code comes back and both outputs are written
C8_Witness ==
    /\ call.op = "read"
    /\ ~call.env.pending
    /\ call.env.st = -1
    /\ call.res.ret = -1
    /\ call.env.words = << 39322, 0 >>
    /\ call.res.out = [temperature |-> 60001, humidity |-> 0]

\* C9: for every 16-bit status word, alert-pending is true iff bit 0x8000
\* is set, humidity-tracking-alert iff bit 0x0800, temperature-tracking-
\* alert iff bit 0x0400, system-reset-detected iff bit 0x0010, last-CRC-
\* failed iff bit 0x0001; so for 0x8011 alert-pending, last-CRC-failed and
\* system-reset-detected are true and the two tracking flags are false.
C9_StatusFlagsDecoded ==
    call.op = "status_flags" =>
        LET s == call.in.status
            bit(k) == (s \div (2 ^ k)) % 2 = 1
        IN  /\ call.res.alrt_pending <=> bit(15)
            /\ call.res.alrt_rh_track <=> bit(11)
            /\ call.res.alrt_t_track <=> bit(10)
            /\ call.res.system_rst_detect <=> bit(4)
            /\ call.res.last_crc_fail <=> bit(0)
            /\ s = 32785 =>
                   call.res = [alrt_pending |-> TRUE, alrt_rh_track |-> FALSE,
                               alrt_t_track |-> FALSE, system_rst_detect |-> TRUE,
                               last_crc_fail |-> TRUE]

\* the flags of status word 0x8011
C9_Witness ==
    /\ call.op = "status_flags"
    /\ call.in.status = 32785
    /\ call.res.alrt_pending
    /\ call.res.system_rst_detect
    /\ call.res.last_crc_fail
    /\ ~call.res.alrt_rh_track
    /\ ~call.res.alrt_t_track

\* C10: for every 16-bit limit word w, writing back with setAlertThreshold
\* what getAlertThreshold decoded from w gives a word whose humidity field
\* (& 0xFE00) and temperature field (& 0x01FF) are each at most those of w;
\* a field that was non-zero comes back one step lower (0x0200 for
\* humidity, 1 for temperature) and a zero field stays zero.  Repeated,
\* get-then-set lowers the stored word step by step to 0x0000.
C10_RewriteLowersLimit ==
    (stim.kind = "word" /\ call.op = "set_alert_thd") =>
        LET hum(w) == w - (w % 512)
            tmp(w) == w % 512
            w1 == stim.word
            w2 == WrittenLimit(call)
        IN  /\ hum(w2) <= hum(w1)
            /\ tmp(w2) <= tmp(w1)
            /\ hum(w2) = IF hum(w1) = 0 THEN 0 ELSE hum(w1) - 512
            /\ tmp(w2) = IF tmp(w1) = 0 THEN 0 ELSE tmp(w1) - 1

\* the limit word 0xFFFF read and written back: 0xFDFE reaches the bus
C10_Witness ==
    /\ stim.kind = "word"
    /\ stim.word = 65535
    /\ call.op = "set_alert_thd"
    /\ call.in.humidity = 992
    /\ call.in.temperature = 1296
    /\ WrittenLimit(call) = 65022

=============================================================================
